---- MODULE Spec2Model ----
(***************************************************************************)
(* Supply and demand calculator (src/src/App.jsx): the equation parser,    *)
(* the equilibrium solver and the React component state around them.       *)
(*                                                                         *)
(* Text is a sequence of one-character strings.  A JavaScript number is an *)
(* exact rational <<numerator, denominator>> in lowest terms with a        *)
(* positive denominator; NaN is <<0, 0>>, Infinity <<1, 0>> and -Infinity  *)
(* <<-1, 0>>.  The model computes in exact arithmetic where the program    *)
(* rounds to IEEE doubles, and keeps the doubles' overflow to Infinity     *)
(* for numerals beyond Number.MAX_VALUE.                                   *)
(***************************************************************************)
EXTENDS Integers, Sequences, FiniteSets, TLC

VARIABLES
    demandEq, supplyEq, demandShift, supplyShift,
    initialEquilibrium, shiftedEquilibrium, error, explanation,
    loadingExplanation, showTable, equilibriumDots,
    seriesRun,        \* the inputs of the run that set graphData and tableData
    mounted, pending,
    response,         \* the reply on its way to the request in flight
    promptCurrent,    \* no input has changed since the last prompt was built
    peSource, peText, peResult

appVars == <<demandEq, supplyEq, demandShift, supplyShift,
             initialEquilibrium, shiftedEquilibrium, error, explanation,
             loadingExplanation, showTable, equilibriumDots, seriesRun,
             mounted, pending, response, promptCurrent>>
parseVars == <<peSource, peText, peResult>>
vars == <<appVars, parseVars>>

(***************************************************************************)
(* Bounds of the model.                                                    *)
(***************************************************************************)
MaxShiftSteps == 1    \* shift fields take the values 4*k, |k| <= MaxShiftSteps
MaxCoef == 2          \* numerals of generated equations are 0..MaxCoef
MaxTerms == 3         \* generated equations have up to MaxTerms terms
MaxRawLen == 3        \* arbitrary texts have up to MaxRawLen characters

(***************************************************************************)
(* JavaScript values                                                       *)
(***************************************************************************)
Null == <<>>
NaN == <<0, 0>>
Infinity == <<1, 0>>

Abs(n) == IF n < 0 THEN -n ELSE n
Sign(n) == IF n < 0 THEN -1 ELSE IF n > 0 THEN 1 ELSE 0

RECURSIVE GCD(_, _)
GCD(a, b) == IF b = 0 THEN a ELSE GCD(b, a % b)

\* n / d: x / 0 is Infinity, -Infinity or, for 0 / 0, NaN
Rat(n, d) ==
    IF d = 0 THEN <<Sign(n), 0>>
    ELSE LET g == GCD(Abs(n), Abs(d))
             s == IF d < 0 THEN -1 ELSE 1
         IN  <<(s * n) \div g, (s * d) \div g>>

Num(n) == <<n, 1>>
IsNaN(x) == x = NaN
IsFinite(x) == x[2] # 0
\* Infinity + -Infinity is NaN
RatAdd(x, y) ==
    IF IsNaN(x) \/ IsNaN(y) THEN NaN
    ELSE IF ~IsFinite(x) /\ ~IsFinite(y) THEN (IF x = y THEN x ELSE NaN)
    ELSE Rat(x[1] * y[2] + y[1] * x[2], x[2] * y[2])
RatNeg(x) == <<-x[1], x[2]>>
RatSub(x, y) == RatAdd(x, RatNeg(y))
\* 0 * Infinity is NaN
RatMul(x, y) == Rat(x[1] * y[1], x[2] * y[2])
\* x / y, the sign of y carried to the numerator
RatDiv(x, y) ==
    LET s == IF y[1] < 0 THEN -1 ELSE 1
    IN  Rat(s * x[1] * y[2], s * x[2] * y[1])
\* x >= 0 and x < 0 in JavaScript: false for NaN
RatGeq0(x) == ~IsNaN(x) /\ x[1] >= 0
RatLt0(x) == ~IsNaN(x) /\ x[1] < 0

(***************************************************************************)
(* Text                                                                    *)
(***************************************************************************)
DigitChars == <<"0", "1", "2", "3", "4", "5", "6", "7", "8", "9">>
DigitSet == {DigitChars[i] : i \in 1..10}
IsDigit(c) == c \in DigitSet
DigitVal(c) == (CHOOSE i \in 1..10 : DigitChars[i] = c) - 1

Uppers == <<"A", "B", "C", "D", "E", "F", "G", "H", "I", "J", "K", "L", "M",
            "N", "O", "P", "Q", "R", "S", "T", "U", "V", "W", "X", "Y", "Z">>
Lowers == <<"a", "b", "c", "d", "e", "f", "g", "h", "i", "j", "k", "l", "m",
            "n", "o", "p", "q", "r", "s", "t", "u", "v", "w", "x", "y", "z">>
IsSpace(c) == c \in {" ", "\t", "\n", "\r"}

\* String.prototype.toLowerCase on one character
UpperSet == {Uppers[i] : i \in 1..Len(Uppers)}
LowerChar(c) == IF c \in UpperSet
                THEN Lowers[CHOOSE i \in 1..Len(Uppers) : Uppers[i] = c]
                ELSE c

NotSpace(c) == ~IsSpace(c)
\* eq.replace(/\s/g, '')
StripSpaces(s) == SelectSeq(s, NotSpace)

toLowerCase(s) == [i \in 1..Len(s) |-> LowerChar(s[i])]

\* 10^k
RECURSIVE Pow10(_)
Pow10(k) == IF k = 0 THEN 1 ELSE 10 * Pow10(k - 1)

\* the index after the run of characters of the set chars that starts at
\* index i of s
RunEnd(s, i, chars) ==
    CHOOSE j \in i..(Len(s) + 1) :
        /\ j = Len(s) + 1 \/ s[j] \notin chars
        /\ \A h \in i..(j - 1) : s[h] \in chars

\* the index after the run of digits of s that starts at index i
DigitRunEnd(s, i) == RunEnd(s, i, DigitSet)

\* the natural number written by the digits s[i..j-1]
RECURSIVE DigitsValue(_, _, _)
DigitsValue(s, i, j) ==
    IF j <= i THEN 0 ELSE 10 * DigitsValue(s, i, j - 1) + DigitVal(s[j - 1])

\* the index after the run of zeros of s that starts at index i
ZeroRunEnd(s, i) == RunEnd(s, i, {"0"})

\* Number.MAX_VALUE, 1.797...e308, has 309 digits: a numeral with more
\* digits before its point is Infinity
MaxDoubleDigits == 309

InfinityText == <<"I", "n", "f", "i", "n", "i", "t", "y">>

\* the text t stands in s from index i on
HasAt(s, i, t) ==
    /\ Len(s) >= i + Len(t) - 1
    /\ \A j \in 1..Len(t) : s[i + j - 1] = t[j]

\* parseFloat on text without exponent: optional sign, then Infinity or
\* digits with an optional fraction; the longest such prefix; NaN when it
\* holds no digit
parseFloat(s) ==
    LET sgn == Len(s) >= 1 /\ s[1] \in {"+", "-"}
        i == IF sgn THEN 2 ELSE 1
        k == DigitRunEnd(s, i)
        dot == k <= Len(s) /\ s[k] = "."
        m == IF dot THEN DigitRunEnd(s, k + 1) ELSE k
        fracLen == IF dot THEN m - (k + 1) ELSE 0
        mag == IF HasAt(s, i, InfinityText)
                  \/ k - ZeroRunEnd(s, i) > MaxDoubleDigits
               THEN Infinity
               ELSE IF k = i /\ fracLen = 0 THEN NaN
               ELSE Rat(DigitsValue(s, i, k) * Pow10(fracLen)
                          + (IF dot THEN DigitsValue(s, k + 1, m) ELSE 0),
                        Pow10(fracLen))
    IN  IF sgn /\ s[1] = "-" THEN RatNeg(mag) ELSE mag

\* the decimal digits of the natural number n
RECURSIVE NatText(_)
NatText(n) ==
    IF n < 10 THEN <<DigitChars[n + 1]>>
    ELSE NatText(n \div 10) \o <<DigitChars[(n % 10) + 1]>>

RECURSIVE PadLeft(_, _)
PadLeft(s, len) == IF Len(s) >= len THEN s ELSE PadLeft(<<"0">> \o s, len)

\* Number.prototype.toFixed(digits): the nearest multiple of 10^-digits,
\* the larger one on a tie; NaN and the infinities by name
toFixed(x, digits) ==
    LET a == IF x[1] < 0 THEN RatNeg(x) ELSE x
        n == (2 * a[1] * Pow10(digits) + a[2]) \div (2 * a[2])
        ds == PadLeft(NatText(n), digits + 1)
        body == IF IsNaN(x) THEN <<"N", "a", "N">>
                ELSE IF ~IsFinite(x) THEN InfinityText
                ELSE IF digits = 0 THEN ds
                ELSE SubSeq(ds, 1, Len(ds) - digits) \o <<".">>
                     \o SubSeq(ds, Len(ds) - digits + 1, Len(ds))
    IN  IF x[1] < 0 THEN <<"-">> \o body ELSE body

(***************************************************************************)
(* parseEquation                                                           *)
(***************************************************************************)
ErrFormat == "Formato de ecuación inválido. Usa 'aP + b' o 'b - aP'."
ErrNaN == "Por favor, ingresa un formato de ecuación válido (ej. '2P + 10' o '50 - 3P')."

\* eq.replace(/^p/, '1p')
ReplaceLeadingP(s) ==
    IF Len(s) >= 1 /\ s[1] = "p" THEN <<"1">> \o s ELSE s

\* mutant: the sign rule of the normalisation is left out
ReplaceSignP_Never(s) == s

\* eq.replace(/([+-])p/, '$11p'): the first sign directly followed by p
ReplaceSignP(s) ==
    LET hits == {i \in 1..(Len(s) - 1) : s[i] \in {"+", "-"} /\ s[i + 1] = "p"}
    IN  IF hits = {} THEN s
        ELSE LET i == CHOOSE h \in hits : \A g \in hits : h <= g
             IN  SubSeq(s, 1, i) \o <<"1">> \o SubSeq(s, i + 1, Len(s))

\* eq.replace(/^-p/, '-1p')
ReplaceLeadingMinusP(s) ==
    IF Len(s) >= 2 /\ s[1] = "-" /\ s[2] = "p"
    THEN <<"-", "1">> \o SubSeq(s, 2, Len(s)) ELSE s

\* one match of /[+-]?\d*\.?\d+p?/ starting at index i: the index of its
\* last character, 0 when the pattern does not match there
MatchEnd(s, i) ==
    LET j == IF s[i] \in {"+", "-"} THEN i + 1 ELSE i
        k == DigitRunEnd(s, j)
        m == IF k <= Len(s) /\ s[k] = "." THEN DigitRunEnd(s, k + 1) ELSE k
        numEnd == IF m > k + 1 THEN m - 1
                  ELSE IF k > j THEN k - 1
                  ELSE 0
    IN  IF numEnd = 0 THEN 0
        ELSE IF numEnd + 1 <= Len(s) /\ s[numEnd + 1] = "p" THEN numEnd + 1
        ELSE numEnd

RECURSIVE MatchTerms(_, _)
\* eq.match(/([+-]?\d*\.?\d+p?)/g) from index i on: the matches, left to right
MatchTerms(s, i) ==
    IF i > Len(s) THEN <<>>
    ELSE LET e == MatchEnd(s, i)
         IN  IF e = 0 THEN MatchTerms(s, i + 1)
             ELSE <<SubSeq(s, i, e)>> \o MatchTerms(s, e + 1)

includesP(term) == \E i \in 1..Len(term) : term[i] = "p"

\* term.replace('p', ''): the first p removed
RemoveP(term) ==
    LET i == CHOOSE h \in 1..Len(term) :
                 term[h] = "p" /\ \A g \in 1..(h - 1) : term[g] # "p"
    IN  SubSeq(term, 1, i - 1) \o SubSeq(term, i + 1, Len(term))

\* what one term adds to the slope
SlopeOfTerm(term) ==
    IF ~includesP(term) THEN Num(0)
    ELSE LET coefStr == RemoveP(term)
         IN  IF coefStr = <<"+">> \/ coefStr = <<>> THEN Num(1)
             ELSE IF coefStr = <<"-">> THEN Num(-1)
             ELSE parseFloat(coefStr)

\* what one term adds to the intercept
InterceptOfTerm(term) ==
    IF includesP(term) THEN Num(0) ELSE parseFloat(term)

RECURSIVE SumSlope(_)
SumSlope(terms) ==
    IF terms = <<>> THEN Num(0)
    ELSE RatAdd(SumSlope(SubSeq(terms, 1, Len(terms) - 1)),
                SlopeOfTerm(terms[Len(terms)]))

RECURSIVE SumIntercept(_)
SumIntercept(terms) ==
    IF terms = <<>> THEN Num(0)
    ELSE RatAdd(SumIntercept(SubSeq(terms, 1, Len(terms) - 1)),
                InterceptOfTerm(terms[Len(terms)]))

\* the text the terms are matched in
NormalizeEq(eq) ==
    ReplaceLeadingMinusP(ReplaceSignP(ReplaceLeadingP(
        toLowerCase(StripSpaces(eq)))))

\* the error field is Null or <<message>>
NoTermsResult ==
    [slope |-> Num(0), intercept |-> Num(0), error |-> <<ErrFormat>>]

\* the return value after the loop over the terms
LoopResult(slope, intercept) ==
    [slope |-> slope, intercept |-> intercept,
     error |-> IF IsNaN(slope) \/ IsNaN(intercept) THEN <<ErrNaN>> ELSE Null]

\* parseEquation from the match on: terms is <<>> where match returns null
ParseTerms(terms) ==
    IF terms = <<>> THEN NoTermsResult
    ELSE LoopResult(SumSlope(terms), SumIntercept(terms))

parseEquation(eq) == ParseTerms(MatchTerms(NormalizeEq(eq), 1))

(***************************************************************************)
(* App: component state and calculateEquilibrium                           *)
(***************************************************************************)
ErrParallel == "Las pendientes de oferta y demanda son las mismas, no hay un único punto de equilibrio o son paralelas."
ErrNoEquilibrium == "No se pudo encontrar un equilibrio válido para las ecuaciones dadas, incluso con los desplazamientos."
ErrDemandPrefix == "Error en la ecuación de Demanda: "
ErrSupplyPrefix == "Error en la ecuación de Oferta: "
FallbackMalformed == "No se pudo generar una explicación. Inténtalo de nuevo."
FallbackFailure == "Error al conectar con la API de Gemini. Asegúrate de tener conexión a internet."
\* JavaScript undefined where a text is expected: it equals no text
Undefined == "<undefined>"

\* useState('-P + 16') and useState('P + 4')
DefaultDemandEq == <<"-", "P", " ", "+", " ", "1", "6">>
DefaultSupplyEq == <<"P", " ", "+", " ", "4">>

\* mutant: parseFloat(shift) without the "|| 0"
currentShift_NoFallback(shift) == shift

\* parseFloat(shift || 0): NaN and 0 are falsy
currentShift(shift) == IF IsNaN(shift) \/ shift = Num(0) THEN Num(0) ELSE shift

\* mutant: the intercepts are subtracted the wrong way round
SolvePoint_SwappedIntercepts(aD, bD, aS, bS) ==
    LET p_calc == RatDiv(RatSub(bS, bD), RatSub(aS, aD))
        q_calc == RatAdd(RatMul(aD, p_calc), bD)
    IN  IF ~IsNaN(p_calc) /\ ~IsNaN(q_calc) /\ RatGeq0(q_calc) /\ RatGeq0(p_calc)
        THEN [price |-> p_calc, quantity |-> q_calc]
        ELSE Null

\* mutant: the quantity is not tested for its sign
SolvePoint_QuantityUnchecked(aD, bD, aS, bS) ==
    LET p_calc == RatDiv(RatSub(bD, bS), RatSub(aS, aD))
        q_calc == RatAdd(RatMul(aD, p_calc), bD)
    IN  IF ~IsNaN(p_calc) /\ ~IsNaN(q_calc) /\ RatGeq0(p_calc)
        THEN [price |-> p_calc, quantity |-> q_calc]
        ELSE Null

\* the solved point of Q = aD*P + bD and Q = aS*P + bS, Null when a solved
\* value is negative; called only when aS - aD is not 0
SolvePoint(aD, bD, aS, bS) ==
    LET p_calc == RatDiv(RatSub(bD, bS), RatSub(aS, aD))
        q_calc == RatAdd(RatMul(aD, p_calc), bD)
    IN  IF ~IsNaN(p_calc) /\ ~IsNaN(q_calc) /\ RatGeq0(q_calc) /\ RatGeq0(p_calc)
        THEN [price |-> p_calc, quantity |-> q_calc]
        ELSE Null

\* the local results of one run of calculateEquilibrium from the parsed
\* equations and the two shifts in use, up to the first assignment of
\* localError: localError, the original and the shifted point
SolveParsed(parsedDemand, parsedSupply, currentDemandShift, currentSupplyShift) ==
    IF parsedDemand.error # Null
    THEN [localError |-> ErrDemandPrefix \o parsedDemand.error[1],
          initial |-> Null, shifted |-> Null]
    ELSE IF parsedSupply.error # Null
    THEN [localError |-> ErrSupplyPrefix \o parsedSupply.error[1],
          initial |-> Null, shifted |-> Null]
    ELSE IF RatSub(parsedSupply.slope, parsedDemand.slope) # Num(0)
    THEN [localError |-> "",
          initial |-> SolvePoint(parsedDemand.slope, parsedDemand.intercept,
                                 parsedSupply.slope, parsedSupply.intercept),
          shifted |-> SolvePoint(
              parsedDemand.slope,
              RatAdd(parsedDemand.intercept, currentDemandShift),
              parsedSupply.slope,
              RatAdd(parsedSupply.intercept, currentSupplyShift))]
    ELSE [localError |-> ErrParallel, initial |-> Null, shifted |-> Null]

(***************************************************************************)
(* Inputs of the model                                                     *)
(***************************************************************************)
\* the texts typed into the two equation fields; their numerals are within
\* the range of a double
Equations ==
    { DefaultDemandEq,
      DefaultSupplyEq,
      <<"P", " ", "+", " ", "1", "0">>,
      <<"2", "P", "+", "1", "0">>,
      <<"5", "0", "-", "3", "P">>,
      <<"a", "b", "c">> }

\* the texts typed while the series are looked at: the defaults, a demand
\* that meets the default supply at a quantity just off a whole number, a
\* steep demand, a constant and a text that does not parse
SeriesEquations ==
    { DefaultDemandEq,
      DefaultSupplyEq,
      <<"-", "P", "+", "1", "6", ".", "0", "0", "4">>,
      <<"5", "0", "-", "3", "P">>,
      <<"1", "0">>,
      <<"a", "b", "c">> }

\* parseEquation on the texts the two fields take, worked out once
ParsedTexts == [eq \in Equations \cup SeriesEquations |-> parseEquation(eq)]

\* the values an onChange of a shift field passes to parseFloat: a number,
\* or NaN for an emptied field
ShiftValues == {Num(4 * k) : k \in (-MaxShiftSteps)..MaxShiftSteps} \cup {NaN}

ApiTexts == {"texto"}

(***************************************************************************)
(* calculateEquilibrium: the results                                       *)
(***************************************************************************)
SolveBoth(dEq, sEq, dShift, sShift) ==
    SolveParsed(ParsedTexts[dEq], ParsedTexts[sEq],
                currentShift(dShift), currentShift(sShift))

\* { price: p.toFixed(2), quantity: q.toFixed(2) } or null
newEquilibrium(point) ==
    IF point # Null
    THEN [price |-> toFixed(point.price, 2), quantity |-> toFixed(point.quantity, 2)]
    ELSE Null

\* localError after "Determinar el error final"
FinalLocalError(localError, newInitial, newShifted, dShift, sShift) ==
    IF localError = "" /\ newInitial = Null /\ newShifted = Null
       /\ (currentShift(dShift) # Num(0) \/ currentShift(sShift) # Num(0))
    THEN ErrNoEquilibrium
    ELSE localError

\* the error state after the batch of setError calls of one run: the reset
\* at the top, then setError(localError) only if it differs from the error
\* the callback closed over
ErrorAfterRun(oldError, localError) ==
    LET afterReset == IF oldError # "" THEN "" ELSE oldError
    IN  IF localError # oldError THEN localError ELSE afterReset

\* the dots pushed to localEquilibriumDots
EquilibriumDotsOf(initial, shifted, dShift, sShift) ==
    (IF initial # Null
     THEN <<[quantity |-> initial.quantity, price |-> initial.price, label |-> "E0"]>>
     ELSE <<>>)
    \o
    (IF shifted # Null
        /\ (currentShift(dShift) # Num(0) \/ currentShift(sShift) # Num(0))
     THEN <<[quantity |-> shifted.quantity, price |-> shifted.price, label |-> "E1"]>>
     ELSE <<>>)

\* the conditional set of an equilibrium: the new value if it differs
SetIfChanged(new, old) == IF new # old THEN new ELSE old

\* the state after the run's set calls, from its local results
StateAfterRun(r, newInitialEquilibrium, newShiftedEquilibrium, dShift, sShift, closed) ==
    [explanation |-> IF closed.explanation # "" THEN "" ELSE closed.explanation,
     showTable |-> IF closed.showTable THEN FALSE ELSE closed.showTable,
     initialEquilibrium |->
         SetIfChanged(newInitialEquilibrium, closed.initialEquilibrium),
     shiftedEquilibrium |->
         SetIfChanged(newShiftedEquilibrium, closed.shiftedEquilibrium),
     error |-> ErrorAfterRun(closed.error,
                             FinalLocalError(r.localError, newInitialEquilibrium,
                                             newShiftedEquilibrium, dShift, sShift)),
     equilibriumDots |-> EquilibriumDotsOf(r.initial, r.shifted, dShift, sShift)]

FormatRun(r, dShift, sShift, closed) ==
    StateAfterRun(r, newEquilibrium(r.initial), newEquilibrium(r.shifted),
                  dShift, sShift, closed)

\* what one run of calculateEquilibrium leaves in the state; closed is the
\* state the callback closed over
RunOutputs(dEq, sEq, dShift, sShift, closed) ==
    FormatRun(SolveBoth(dEq, sEq, dShift, sShift), dShift, sShift, closed)

\* the state a callback created in the current render closes over
Closure ==
    [explanation |-> explanation, showTable |-> showTable,
     initialEquilibrium |-> initialEquilibrium,
     shiftedEquilibrium |-> shiftedEquilibrium, error |-> error]

\* one run of calculateEquilibrium with the inputs of the render that
\* created the callback
calculateEquilibrium(dEq, sEq, dShift, sShift) ==
    \E out \in {RunOutputs(dEq, sEq, dShift, sShift, Closure)} :
        /\ explanation' = out.explanation
        /\ showTable' = out.showTable
        /\ initialEquilibrium' = out.initialEquilibrium
        /\ shiftedEquilibrium' = out.shiftedEquilibrium
        /\ error' = out.error
        /\ equilibriumDots' = out.equilibriumDots
        /\ seriesRun' = [demandEq |-> dEq, supplyEq |-> sEq,
                         demandShift |-> dShift, supplyShift |-> sShift]
        /\ promptCurrent' = FALSE

(***************************************************************************)
(* calculateEquilibrium: the plot series and the table rows                *)
(*                                                                         *)
(* Every run ends in setGraphData and setTableData with what it computed   *)
(* from its own inputs, so the two are kept as seriesRun, the inputs of    *)
(* the run that set them; graphData and tableData are worked out of it.    *)
(***************************************************************************)
EPSILON == Rat(1, 100)
numPointsGraph == 50

RatLess(x, y) == x[1] * y[2] < y[1] * x[2]
RatGt0(x) == x[1] > 0
RatAbs(x) == IF x[1] < 0 THEN RatNeg(x) ELSE x
\* Math.max of two numbers
MathMax(x, y) ==
    IF IsNaN(x) \/ IsNaN(y) THEN NaN ELSE IF RatLess(x, y) THEN y ELSE x
\* Math.round of a finite number: the nearest integer, the upper one on a tie
MathRound(x) == Num((2 * x[1] + x[2]) \div (2 * x[2]))

\* the locals of a run the series are computed from
SeriesLocals(run) ==
    LET parsedDemand == ParsedTexts[run.demandEq]
        parsedSupply == ParsedTexts[run.supplyEq]
        currentDemandShift == currentShift(run.demandShift)
        currentSupplyShift == currentShift(run.supplyShift)
        r == SolveParsed(parsedDemand, parsedSupply,
                         currentDemandShift, currentSupplyShift)
    IN  [parsedDemand |-> parsedDemand,
         parsedSupply |-> parsedSupply,
         bD_shifted |-> RatAdd(parsedDemand.intercept, currentDemandShift),
         bS_shifted |-> RatAdd(parsedSupply.intercept, currentSupplyShift),
         localQEInitial |-> IF r.initial # Null THEN r.initial.quantity ELSE Null,
         localQEShifted |-> IF r.shifted # Null THEN r.shifted.quantity ELSE Null]

\* Math.max(m, x) when the condition of its line holds
MaxIf(cond, m, x) == IF cond THEN MathMax(m, x) ELSE m

\* mutant: the quantity intercepts of the shifted curves are left out
maxQuantityValue_NoShiftedIntercepts(loc) ==
    LET m1 == MaxIf(loc.localQEInitial # Null, Num(0),
                    RatMul(loc.localQEInitial, Rat(3, 2)))
        m2 == MaxIf(loc.localQEShifted # Null, m1,
                    RatMul(loc.localQEShifted, Rat(3, 2)))
        m3 == MaxIf(RatLt0(loc.parsedDemand.slope)
                        /\ RatGt0(loc.parsedDemand.intercept),
                    m2, RatMul(loc.parsedDemand.intercept, Rat(11, 10)))
        m4 == MaxIf(RatGt0(loc.parsedSupply.slope)
                        /\ RatGt0(loc.parsedSupply.intercept),
                    m3, RatMul(loc.parsedSupply.intercept, Rat(11, 10)))
    IN  MathMax(m4, Num(20))

\* maxQuantityValue after "Asegurar un rango mínimo de cantidad"
maxQuantityValue(loc) ==
    LET m1 == MaxIf(loc.localQEInitial # Null, Num(0),
                    RatMul(loc.localQEInitial, Rat(3, 2)))
        m2 == MaxIf(loc.localQEShifted # Null, m1,
                    RatMul(loc.localQEShifted, Rat(3, 2)))
        m3 == MaxIf(RatLt0(loc.parsedDemand.slope)
                        /\ RatGt0(loc.parsedDemand.intercept),
                    m2, RatMul(loc.parsedDemand.intercept, Rat(11, 10)))
        m4 == MaxIf(RatGt0(loc.parsedSupply.slope)
                        /\ RatGt0(loc.parsedSupply.intercept),
                    m3, RatMul(loc.parsedSupply.intercept, Rat(11, 10)))
        m5 == MaxIf(RatLt0(loc.parsedDemand.slope) /\ RatGt0(loc.bD_shifted),
                    m4, RatMul(loc.bD_shifted, Rat(11, 10)))
        m6 == MaxIf(RatGt0(loc.parsedSupply.slope) /\ RatGt0(loc.bS_shifted),
                    m5, RatMul(loc.bS_shifted, Rat(11, 10)))
    IN  MathMax(m6, Num(20))

\* q of the i-th pass of the loop: minQuantityValue + i * stepGraph
SampleQuantity(maxQ, i) ==
    RatAdd(Num(0), RatMul(Num(i), RatDiv(RatSub(maxQ, Num(0)), Num(numPointsGraph))))

\* mutant: the price is not tested for its sign
PriceAt_SignUnchecked(slope, intercept, q) ==
    IF slope # Num(0)
    THEN RatDiv(RatSub(q, intercept), slope)
    ELSE Null

\* (slope !== 0 && (q - intercept) / slope >= 0) ? (q - intercept) / slope : null
PriceAt(slope, intercept, q) ==
    IF slope # Num(0) /\ RatGeq0(RatDiv(RatSub(q, intercept), slope))
    THEN RatDiv(RatSub(q, intercept), slope)
    ELSE Null

\* the four prices at quantity q
PricesAt(loc, q) ==
    [price_demanda_original |->
         PriceAt(loc.parsedDemand.slope, loc.parsedDemand.intercept, q),
     price_oferta_original |->
         PriceAt(loc.parsedSupply.slope, loc.parsedSupply.intercept, q),
     price_demanda_shifted |-> PriceAt(loc.parsedDemand.slope, loc.bD_shifted, q),
     price_oferta_shifted |-> PriceAt(loc.parsedSupply.slope, loc.bS_shifted, q)]

GraphPoint(q, prices) ==
    [quantity |-> q,
     price_demanda_original |-> prices.price_demanda_original,
     price_oferta_original |-> prices.price_oferta_original,
     price_demanda_shifted |-> prices.price_demanda_shifted,
     price_oferta_shifted |-> prices.price_oferta_shifted]

\* graphDataPoints: entry i + 1 is the point pushed in pass i
graphDataPoints(loc, maxQ) ==
    [n \in 1..(numPointsGraph + 1) |->
        GraphPoint(SampleQuantity(maxQ, n - 1),
                   PricesAt(loc, SampleQuantity(maxQ, n - 1)))]

\* q % 5 === 0 || Math.abs(q - Math.round(q)) < EPSILON * 10
IsRoundQuantity(q) ==
    \/ (q[2] = 1 /\ q[1] % 5 = 0)
    \/ RatLess(RatAbs(RatSub(q, MathRound(q))), RatMul(EPSILON, Num(10)))

\* the Set of table quantities after the loop and the two adds
rawTableQuantities(loc, maxQ) ==
    {MathRound(SampleQuantity(maxQ, i)) :
        i \in {j \in 0..numPointsGraph : IsRoundQuantity(SampleQuantity(maxQ, j))}}
    \cup (IF loc.localQEInitial # Null THEN {loc.localQEInitial} ELSE {})
    \cup (IF loc.localQEShifted # Null THEN {loc.localQEShifted} ELSE {})

\* Array.from(set).sort((a, b) => a - b)
sortedTableQuantities(quantities) ==
    [n \in 1..Cardinality(quantities) |->
        CHOOSE x \in quantities :
            Cardinality({y \in quantities : RatLess(y, x)}) = n - 1]

NotAvailable == <<"N", "/", "A">>

\* p !== null ? p.toFixed(2) : 'N/A'
PriceText(p) == IF p # Null THEN toFixed(p, 2) ELSE NotAvailable

\* Math.abs(q - quantity) < EPSILON for an equilibrium quantity that exists
IsEquilibriumQuantity(q, quantity) ==
    quantity # Null /\ RatLess(RatAbs(RatSub(q, quantity)), EPSILON)

\* displayQuantity
QuantityText(loc, q) ==
    IF IsEquilibriumQuantity(q, loc.localQEInitial)
       \/ IsEquilibriumQuantity(q, loc.localQEShifted)
    THEN toFixed(q, 2)
    ELSE toFixed(q, 0)

TableRow(quantity, prices) ==
    [quantity |-> quantity,
     price_demanda_original |-> PriceText(prices.price_demanda_original),
     price_oferta_original |-> PriceText(prices.price_oferta_original),
     price_demanda_shifted |-> PriceText(prices.price_demanda_shifted),
     price_oferta_shifted |-> PriceText(prices.price_oferta_shifted)]

\* tableDataPoints over the sorted quantities
TableRows(loc, sorted) ==
    [n \in 1..Len(sorted) |->
        TableRow(QuantityText(loc, sorted[n]), PricesAt(loc, sorted[n]))]

tableDataPoints(loc, maxQ) ==
    TableRows(loc, sortedTableQuantities(rawTableQuantities(loc, maxQ)))

GraphOfLocals(loc) == graphDataPoints(loc, maxQuantityValue(loc))
TableOfLocals(loc) == tableDataPoints(loc, maxQuantityValue(loc))
QuantitiesOfLocals(loc) ==
    sortedTableQuantities(rawTableQuantities(loc, maxQuantityValue(loc)))

\* the state graphData: [] until the first run
graphData ==
    IF seriesRun = Null THEN <<>> ELSE GraphOfLocals(SeriesLocals(seriesRun))

\* the state tableData: [] until the first run
tableData ==
    IF seriesRun = Null THEN <<>> ELSE TableOfLocals(SeriesLocals(seriesRun))

(***************************************************************************)
(* Actions                                                                 *)
(***************************************************************************)
\* the useState defaults, before the first effect has run
Init ==
    /\ demandEq = DefaultDemandEq
    /\ supplyEq = DefaultSupplyEq
    /\ demandShift = Num(0)
    /\ supplyShift = Num(0)
    /\ initialEquilibrium = Null
    /\ shiftedEquilibrium = Null
    /\ error = ""
    /\ explanation = ""
    /\ loadingExplanation = FALSE
    /\ showTable = FALSE
    /\ equilibriumDots = <<>>
    /\ seriesRun = Null
    /\ mounted = FALSE
    /\ pending = 0
    /\ response = Null
    /\ promptCurrent = FALSE
    /\ peSource = Null
    /\ peText = <<>>
    /\ peResult = Null

\* the effect of the first render
Mount ==
    /\ ~mounted
    /\ mounted' = TRUE
    /\ calculateEquilibrium(demandEq, supplyEq, demandShift, supplyShift)
    /\ UNCHANGED <<demandEq, supplyEq, demandShift, supplyShift,
                   loadingExplanation, pending, response, parseVars>>

\* onChange of the demand field, the render and its effect
ChangeDemandEq(eq) ==
    /\ mounted
    /\ eq # demandEq
    /\ demandEq' = eq
    /\ calculateEquilibrium(eq, supplyEq, demandShift, supplyShift)
    /\ UNCHANGED <<supplyEq, demandShift, supplyShift, loadingExplanation,
                   mounted, pending, response, parseVars>>

ChangeSupplyEq(eq) ==
    /\ mounted
    /\ eq # supplyEq
    /\ supplyEq' = eq
    /\ calculateEquilibrium(demandEq, eq, demandShift, supplyShift)
    /\ UNCHANGED <<demandEq, demandShift, supplyShift, loadingExplanation,
                   mounted, pending, response, parseVars>>

\* setDemandShift(parseFloat(e.target.value)); Object.is(NaN, NaN) holds, so
\* a NaN set over NaN renders nothing
ChangeDemandShift(v) ==
    /\ mounted
    /\ v # demandShift
    /\ demandShift' = v
    /\ calculateEquilibrium(demandEq, supplyEq, v, supplyShift)
    /\ UNCHANGED <<demandEq, supplyEq, supplyShift, loadingExplanation,
                   mounted, pending, response, parseVars>>

ChangeSupplyShift(v) ==
    /\ mounted
    /\ v # supplyShift
    /\ supplyShift' = v
    /\ calculateEquilibrium(demandEq, supplyEq, demandShift, v)
    /\ UNCHANGED <<demandEq, supplyEq, demandShift, loadingExplanation,
                   mounted, pending, response, parseVars>>

\* the result block, with its two buttons, is rendered
ResultBlockShown ==
    initialEquilibrium # Null \/ shiftedEquilibrium # Null \/ error # ""

ToggleTable ==
    /\ mounted
    /\ ResultBlockShown
    /\ showTable' = ~showTable
    /\ UNCHANGED <<demandEq, supplyEq, demandShift, supplyShift,
                   initialEquilibrium, shiftedEquilibrium, error, explanation,
                   loadingExplanation, equilibriumDots, seriesRun, mounted,
                   pending, response, promptCurrent, parseVars>>

\* mutant: the test of generateExplanation without loadingExplanation
ExplanationRefused_IgnoresLoading ==
    initialEquilibrium = Null /\ shiftedEquilibrium = Null /\ error = ""

\* the test at the top of generateExplanation: nothing to explain, or a
\* request already under way
ExplanationRefused ==
    \/ (initialEquilibrium = Null /\ shiftedEquilibrium = Null /\ error = "")
    \/ loadingExplanation

\* what the service may send back: a candidate whose first part holds a
\* text, a candidate whose first part holds no text field, a reply without
\* candidates, content or parts, or nothing (fetch or json() rejects)
Replies == [kind : {"text"}, text : ApiTexts]
           \cup {[kind |-> "untexted", text |-> Undefined],
                 [kind |-> "malformed"], [kind |-> "throws"]}

\* a click on the explain button (Button passes no disabled attribute on):
\* generateExplanation up to its await
GenerateExplanation ==
    /\ mounted
    /\ ResultBlockShown
    /\ ~ExplanationRefused
    /\ loadingExplanation' = TRUE
    /\ explanation' = ""
    /\ pending' = pending + 1
    /\ promptCurrent' = TRUE
    /\ \E reply \in Replies : response' = reply
    /\ UNCHANGED <<demandEq, supplyEq, demandShift, supplyShift,
                   initialEquilibrium, shiftedEquilibrium, error, showTable,
                   equilibriumDots, seriesRun, mounted, parseVars>>

\* a click on the explain button that generateExplanation turns down
GenerateExplanationRefused ==
    /\ mounted
    /\ ResultBlockShown
    /\ ExplanationRefused
    /\ explanation' = ""
    /\ UNCHANGED <<demandEq, supplyEq, demandShift, supplyShift,
                   initialEquilibrium, shiftedEquilibrium, error, showTable,
                   loadingExplanation, equilibriumDots, seriesRun, mounted,
                   pending, response, promptCurrent, parseVars>>

\* mutant: the catch block also reports through the error message
ExplanationSettles_SetsError(text) ==
    /\ pending > 0
    /\ pending' = pending - 1
    /\ response' = Null
    /\ explanation' = text
    /\ error' = (IF response.kind = "throws" THEN text ELSE error)
    /\ loadingExplanation' = FALSE
    /\ UNCHANGED <<demandEq, supplyEq, demandShift, supplyShift,
                   initialEquilibrium, shiftedEquilibrium, showTable,
                   equilibriumDots, seriesRun, mounted, promptCurrent,
                   parseVars>>

\* the request settles: generateExplanation from its await on
ExplanationSettles(text) ==
    /\ pending > 0
    /\ pending' = pending - 1
    /\ response' = Null
    /\ explanation' = text
    /\ loadingExplanation' = FALSE
    /\ UNCHANGED <<demandEq, supplyEq, demandShift, supplyShift,
                   initialEquilibrium, shiftedEquilibrium, error, showTable,
                   equilibriumDots, seriesRun, mounted, promptCurrent,
                   parseVars>>

\* setExplanation(result.candidates[0].content.parts[0].text)
ExplanationSucceeds ==
    /\ response # Null /\ response.kind \in {"text", "untexted"}
    /\ ExplanationSettles(response.text)
ExplanationMalformed ==
    /\ response # Null /\ response.kind = "malformed"
    /\ ExplanationSettles(FallbackMalformed)
ExplanationFails ==
    /\ response # Null /\ response.kind = "throws"
    /\ ExplanationSettles(FallbackFailure)

Next ==
    \/ Mount
    \/ \E eq \in Equations : ChangeDemandEq(eq)
    \/ \E eq \in Equations : ChangeSupplyEq(eq)
    \/ \E v \in ShiftValues : ChangeDemandShift(v)
    \/ \E v \in ShiftValues : ChangeSupplyShift(v)
    \/ ToggleTable
    \/ GenerateExplanation
    \/ GenerateExplanationRefused
    \/ ExplanationSucceeds
    \/ ExplanationMalformed
    \/ ExplanationFails

Spec == Init /\ [][Next]_vars

(***************************************************************************)
(* What the render shows                                                   *)
(***************************************************************************)
\* {explanation && !loadingExplanation && ...}: '' and undefined are falsy
ExplanationShown ==
    explanation # "" /\ explanation # Undefined /\ ~loadingExplanation

\* the "Después de Desplazamientos" lines of the result block
ShiftedBlockShown ==
    /\ ResultBlockShown
    /\ shiftedEquilibrium # Null
    /\ (demandShift # Num(0) \/ supplyShift # Num(0))

\* the two dashed lines of the chart
ShiftedCurvesShown ==
    seriesRun # Null /\ (demandShift # Num(0) \/ supplyShift # Num(0))

\* the scatter holds the dot labelled E1
E1DotShown == \E i \in 1..Len(equilibriumDots) : equilibriumDots[i].label = "E1"

\* {showTable && tableData.length > 0 && ...}
TableShown == showTable /\ seriesRun # Null

\* parseFloat of the quantity of a stored equilibrium, null without one
EqQuantity(eqm) == IF eqm # Null THEN parseFloat(eqm.quantity) ELSE Null

\* the class of a table row: orange for the shifted equilibrium, else
\* yellow for the original one, else none
rowClassName(row) ==
    IF /\ EqQuantity(shiftedEquilibrium) # Null
       /\ (demandShift # Num(0) \/ supplyShift # Num(0))
       /\ RatLess(RatAbs(RatSub(parseFloat(row.quantity),
                                EqQuantity(shiftedEquilibrium))), EPSILON)
    THEN "bg-orange-100 font-bold"
    ELSE IF /\ EqQuantity(initialEquilibrium) # Null
            /\ RatLess(RatAbs(RatSub(parseFloat(row.quantity),
                                     EqQuantity(initialEquilibrium))), EPSILON)
    THEN "bg-yellow-100 font-bold"
    ELSE ""

(***************************************************************************)
(* The component with the series looked at: the two fields take the texts  *)
(* of SeriesEquations                                                      *)
(***************************************************************************)
NextSeries ==
    \/ Mount
    \/ \E eq \in SeriesEquations : ChangeDemandEq(eq)
    \/ \E eq \in SeriesEquations : ChangeSupplyEq(eq)
    \/ \E v \in ShiftValues : ChangeDemandShift(v)
    \/ \E v \in ShiftValues : ChangeSupplyShift(v)
    \/ ToggleTable

SpecSeries == Init /\ [][NextSeries]_vars

(***************************************************************************)
(* parseEquation on its own: a text is chosen, then parsed                 *)
(***************************************************************************)
\* a numeral as it is written and the number it denotes
IntLit(n) == [text |-> NatText(n), val |-> Num(n)]
HalfLit(n) == [text |-> NatText(n) \o <<".", "5">>, val |-> Rat(2 * n + 1, 2)]
DotHalfLit == [text |-> <<".", "5">>, val |-> Rat(1, 2)]
\* a price term without a written coefficient
BareLit == [text |-> <<>>, val |-> Num(1)]

IntLits == {IntLit(n) : n \in 0..MaxCoef}
DecLits == {HalfLit(n) : n \in 0..MaxCoef} \cup {DotHalfLit}

PriceTerms(lits) == [sign : {"+", "-"}, lit : lits \cup {BareLit}, isP : {TRUE}]
ConstTerms(lits) == [sign : {"+", "-"}, lit : lits, isP : {FALSE}]

\* an equation as it is meant: its terms, and how it is typed
Written(termSeqs, leadPlus, spaced, upper) ==
    [terms : termSeqs, leadPlus : leadPlus, spaced : spaced, upper : upper]

\* one price term and one constant, in either order, any spacing and case
LinearSources ==
    LET lits == IntLits \cup DecLits
    IN  Written(  (PriceTerms(lits) \X ConstTerms(lits))
                \cup (ConstTerms(lits) \X PriceTerms(lits)),
                BOOLEAN, BOOLEAN, BOOLEAN)

RECURSIVE TermSeqs(_, _)
\* the sequences of 1..n terms drawn from the set terms
TermSeqs(terms, n) ==
    IF n = 0 THEN {}
    ELSE LET shorter == TermSeqs(terms, n - 1)
         IN  {<<t>> : t \in terms} \cup shorter
             \cup {Append(ts, t) : ts \in shorter, t \in terms}

\* up to MaxTerms terms with whole-number numerals, typed without spaces
MultiSources ==
    Written(TermSeqs(PriceTerms(IntLits) \cup ConstTerms(IntLits), MaxTerms),
            BOOLEAN, {FALSE}, {TRUE})

TermText(t, upper) ==
    t.lit.text \o (IF t.isP THEN <<IF upper THEN "P" ELSE "p">> ELSE <<>>)

RECURSIVE FormatTerms(_, _)
\* the text of a written equation
FormatTerms(src, n) ==
    IF n = 0 THEN <<>>
    ELSE LET t == src.terms[n]
         IN  IF n = 1
             THEN (IF t.sign = "-" \/ src.leadPlus
                   THEN (IF src.spaced THEN <<t.sign, " ">> ELSE <<t.sign>>)
                   ELSE <<>>)
                  \o TermText(t, src.upper)
             ELSE FormatTerms(src, n - 1)
                  \o (IF src.spaced THEN <<" ", t.sign, " ">> ELSE <<t.sign>>)
                  \o TermText(t, src.upper)

FormatEquation(src) == FormatTerms(src, Len(src.terms))

Signed(t) == IF t.sign = "-" THEN RatNeg(t.lit.val) ELSE t.lit.val

RECURSIVE SumWhere(_, _, _)
\* the sum of the signed numerals of the first n terms that are (isP = TRUE)
\* or are not (isP = FALSE) price terms
SumWhere(terms, n, isP) ==
    IF n = 0 THEN Num(0)
    ELSE RatAdd(SumWhere(terms, n - 1, isP),
                IF terms[n].isP = isP THEN Signed(terms[n]) ELSE Num(0))

MeantSlope(src) == SumWhere(src.terms, Len(src.terms), TRUE)
MeantIntercept(src) == SumWhere(src.terms, Len(src.terms), FALSE)
PriceTermCount(src) == Cardinality({i \in 1..Len(src.terms) : src.terms[i].isP})

RawAlphabet == {"p", "P", "+", "-", "1", ".", "a", " "}

RECURSIVE RawTexts(_)
\* every text of up to n characters of RawAlphabet
RawTexts(n) ==
    IF n = 0 THEN {<<>>}
    ELSE LET shorter == RawTexts(n - 1)
         IN  shorter \cup {Append(s, c) : s \in shorter, c \in RawAlphabet}

\* 1 followed by MaxDoubleDigits zeros: a numeral beyond Number.MAX_VALUE
HugeNumeral == <<"1">> \o [i \in 1..MaxDoubleDigits |-> "0"]

\* texts with numerals beyond the range of a double
OverflowTexts ==
    { HugeNumeral \o <<"P", "+", "4">>,
      HugeNumeral \o <<"-">> \o HugeNumeral,
      HugeNumeral \o <<"P", "-">> \o HugeNumeral \o <<"P", "+", "4">> }

AppIdle ==
    /\ demandEq = DefaultDemandEq
    /\ supplyEq = DefaultSupplyEq
    /\ demandShift = Num(0)
    /\ supplyShift = Num(0)
    /\ initialEquilibrium = Null
    /\ shiftedEquilibrium = Null
    /\ error = ""
    /\ explanation = ""
    /\ loadingExplanation = FALSE
    /\ showTable = FALSE
    /\ equilibriumDots = <<>>
    /\ seriesRun = Null
    /\ mounted = FALSE
    /\ pending = 0
    /\ response = Null
    /\ promptCurrent = FALSE

InitParse ==
    /\ AppIdle
    /\ peResult = Null
    /\ \/ \E src \in LinearSources \cup MultiSources :
            peSource = src /\ peText = FormatEquation(src)
       \/ \E s \in RawTexts(MaxRawLen) \cup Equations \cup OverflowTexts :
            peSource = Null /\ peText = s

ParseStep ==
    /\ peResult = Null
    /\ peResult' = parseEquation(peText)
    /\ UNCHANGED <<appVars, peSource, peText>>

NextParse == ParseStep

SpecParse == InitParse /\ [][NextParse]_vars

(***************************************************************************)
(* Properties                                                              *)
(***************************************************************************)
Parsed(eq) == ParsedTexts[eq]
BothParse == Parsed(demandEq).error = Null /\ Parsed(supplyEq).error = Null
SlopesDiffer == Parsed(supplyEq).slope # Parsed(demandEq).slope

\* the shift a field value stands for: an emptied field counts as 0
UsedShift(v) == IF IsNaN(v) THEN Num(0) ELSE v
ShiftsActive == UsedShift(demandShift) # Num(0) \/ UsedShift(supplyShift) # Num(0)

\* the price and the quantity where Q = aD*P + bD meets Q = aS*P + bS
MeetPrice(aD, bD, aS, bS) == RatDiv(RatSub(bD, bS), RatSub(aS, aD))
MeetQuantity(aD, bD, aS, bS) == RatAdd(RatMul(aD, MeetPrice(aD, bD, aS, bS)), bD)

OriginalPrice ==
    MeetPrice(Parsed(demandEq).slope, Parsed(demandEq).intercept,
              Parsed(supplyEq).slope, Parsed(supplyEq).intercept)
OriginalQuantity ==
    MeetQuantity(Parsed(demandEq).slope, Parsed(demandEq).intercept,
                 Parsed(supplyEq).slope, Parsed(supplyEq).intercept)
ShiftedPrice ==
    MeetPrice(Parsed(demandEq).slope,
              RatAdd(Parsed(demandEq).intercept, UsedShift(demandShift)),
              Parsed(supplyEq).slope,
              RatAdd(Parsed(supplyEq).intercept, UsedShift(supplyShift)))
ShiftedQuantity ==
    MeetQuantity(Parsed(demandEq).slope,
                 RatAdd(Parsed(demandEq).intercept, UsedShift(demandShift)),
                 Parsed(supplyEq).slope,
                 RatAdd(Parsed(supplyEq).intercept, UsedShift(supplyShift)))

\* text shows x rounded to two decimals: digits, a point, two digits, and a
\* value within half a hundredth of x (the upper value on a tie)
ShowsRounded(text, x) ==
    LET c == parseFloat(text)
        diff == RatSub(c, x)
    IN  /\ Len(text) >= 4
        /\ text[Len(text) - 2] = "."
        /\ \A i \in 1..Len(text) : i # Len(text) - 2 => IsDigit(text[i])
        /\ 200 * diff[1] <= diff[2]
        /\ -200 * diff[1] < diff[2]

(* C1: whenever an original equilibrium is reported, both equations parsed,
   the slopes differ, and the reported price and quantity are
   (bD - bS) / (aS - aD) and aD * price + bD rounded to two decimals; demand
   -P + 16 with supply P + 4 reports price 6.00 and quantity 10.00. *)
C1_OriginalEquilibrium ==
    /\ initialEquilibrium # Null =>
          /\ BothParse
          /\ SlopesDiffer
          /\ ShowsRounded(initialEquilibrium.price, OriginalPrice)
          /\ ShowsRounded(initialEquilibrium.quantity, OriginalQuantity)
    /\ (mounted /\ demandEq = DefaultDemandEq /\ supplyEq = DefaultSupplyEq) =>
          initialEquilibrium = [price |-> <<"6", ".", "0", "0">>,
                                quantity |-> <<"1", "0", ".", "0", "0">>]

C1_Witness ==
    /\ mounted
    /\ demandEq = <<"5", "0", "-", "3", "P">>
    /\ supplyEq = DefaultSupplyEq
    /\ initialEquilibrium = [price |-> <<"1", "1", ".", "5", "0">>,
                             quantity |-> <<"1", "5", ".", "5", "0">>]

(* C2: whenever a shifted equilibrium is stored, its price and quantity are
   ((bD + sD) - (bS + sS)) / (aS - aD) and aD * price' + (bD + sD) rounded to
   two decimals, slopes unchanged; with both shifts zero the stored shifted
   equilibrium equals the original one; demand -P + 16, supply P + 4 and
   sD = 4 give price 8.00 and quantity 12.00. *)
C2_ShiftedEquilibrium ==
    /\ shiftedEquilibrium # Null =>
          /\ BothParse
          /\ SlopesDiffer
          /\ ShowsRounded(shiftedEquilibrium.price, ShiftedPrice)
          /\ ShowsRounded(shiftedEquilibrium.quantity, ShiftedQuantity)
    /\ (mounted /\ ~ShiftsActive) => shiftedEquilibrium = initialEquilibrium
    /\ (mounted /\ demandEq = DefaultDemandEq /\ supplyEq = DefaultSupplyEq
        /\ demandShift = Num(4) /\ UsedShift(supplyShift) = Num(0)) =>
          shiftedEquilibrium = [price |-> <<"8", ".", "0", "0">>,
                                quantity |-> <<"1", "2", ".", "0", "0">>]

C2_Witness ==
    /\ mounted
    /\ demandEq = DefaultDemandEq
    /\ supplyEq = <<"2", "P", "+", "1", "0">>
    /\ demandShift = Num(4)
    /\ supplyShift = Num(0)
    /\ initialEquilibrium = [price |-> <<"2", ".", "0", "0">>,
                             quantity |-> <<"1", "4", ".", "0", "0">>]
    /\ shiftedEquilibrium = [price |-> <<"3", ".", "3", "3">>,
                             quantity |-> <<"1", "6", ".", "6", "7">>]

\* the stored equilibrium eqm shows no negative value
NonNegativeShown(eqm) ==
    eqm # Null =>
        /\ eqm.price[1] # "-" /\ RatGeq0(parseFloat(eqm.price))
        /\ eqm.quantity[1] # "-" /\ RatGeq0(parseFloat(eqm.quantity))

(* C3: a stored equilibrium never shows a negative price or quantity, and
   once the inputs have been computed with two parsed equations of different
   slopes, each equilibrium is present exactly when its solved price and
   solved quantity are both non-negative. *)
C3_NoNegativeEquilibrium ==
    /\ NonNegativeShown(initialEquilibrium)
    /\ NonNegativeShown(shiftedEquilibrium)
    /\ (mounted /\ BothParse /\ SlopesDiffer) =>
          /\ initialEquilibrium # Null
                <=> (RatGeq0(OriginalPrice) /\ RatGeq0(OriginalQuantity))
          /\ shiftedEquilibrium # Null
                <=> (RatGeq0(ShiftedPrice) /\ RatGeq0(ShiftedQuantity))

\* a negative solved quantity at a positive price leaves the original
\* equilibrium absent while the shifted one, solved non-negative, is stored
C3_Witness ==
    /\ mounted /\ BothParse /\ SlopesDiffer
    /\ RatGeq0(OriginalPrice) /\ RatLt0(OriginalQuantity)
    /\ initialEquilibrium = Null
    /\ RatGeq0(ShiftedPrice) /\ RatGeq0(ShiftedQuantity)
    /\ shiftedEquilibrium # Null

(* C4: once the current inputs have been computed, two parsed equations of
   equal slope leave both equilibria absent and a non-empty error message
   (the parallel-slopes message). *)
C4_ParallelReported ==
    (mounted /\ BothParse /\ ~SlopesDiffer) =>
        /\ initialEquilibrium = Null
        /\ shiftedEquilibrium = Null
        /\ error # ""

(* C5: once the current inputs have been computed, an equation that fails
   to parse leaves both equilibria absent and a non-empty parse error; the
   demand error when the demand equation fails (so also when both fail),
   else the supply error; never the parallel-slopes or the
   no-valid-equilibrium message. *)
C5_ParseErrorReported ==
    (mounted /\ ~BothParse) =>
        /\ initialEquilibrium = Null
        /\ shiftedEquilibrium = Null
        /\ error # ""
        /\ error = IF Parsed(demandEq).error # Null
                   THEN ErrDemandPrefix \o Parsed(demandEq).error[1]
                   ELSE ErrSupplyPrefix \o Parsed(supplyEq).error[1]
        /\ error \notin {ErrParallel, ErrNoEquilibrium}

(* C6: once the current inputs have been computed with two parsed equations
   of different slopes and neither equilibrium valid, an error is reported
   if a shift is non-zero and none is reported if both shifts are zero. *)
C6_NoEquilibriumReported ==
    (mounted /\ BothParse /\ SlopesDiffer
     /\ initialEquilibrium = Null /\ shiftedEquilibrium = Null) =>
        (IF ShiftsActive THEN error # "" ELSE error = "")

\* the state of the component before its first effect
FreshClosure ==
    [explanation |-> "", showTable |-> FALSE, initialEquilibrium |-> Null,
     shiftedEquilibrium |-> Null, error |-> ""]

\* the outputs held in the state
Outputs(st) ==
    <<st.initialEquilibrium, st.shiftedEquilibrium, st.error>>

(* C7: the outputs are a function of the four current inputs alone:
   whatever the history of input changes, they are the outputs a newly
   constructed component computes for these inputs.  (The effect runs only
   when an input has changed, so a run on unchanged inputs is no step of
   the component.) *)
C7_OutputsFunctionOfInputs ==
    mounted =>
        Outputs(Closure)
          = Outputs(RunOutputs(demandEq, supplyEq, demandShift, supplyShift,
                               FreshClosure))

\* peSource is one price term and one constant
IsLinear(src) == src # Null /\ Len(src.terms) = 2 /\ PriceTermCount(src) = 1

ParsesAs(text, a, b) ==
    peText = text =>
        peResult = [slope |-> Num(a), intercept |-> Num(b), error |-> Null]

(* C8: an equation written as one price term and one constant, in either
   order, spaced or not, P or p, parses without error to the signed
   coefficient of the price term (1 for a bare P) and the signed constant;
   -P + 16, P + 4, 2P+10 and 50-3P parse to (-1, 16), (1, 4), (2, 10) and
   (-3, 50). *)
C8_LinearFormsParse ==
    peResult # Null =>
        /\ IsLinear(peSource) =>
              /\ peResult.error = Null
              /\ peResult.slope = MeantSlope(peSource)
              /\ peResult.intercept = MeantIntercept(peSource)
        /\ ParsesAs(DefaultDemandEq, -1, 16)
        /\ ParsesAs(DefaultSupplyEq, 1, 4)
        /\ ParsesAs(<<"2", "P", "+", "1", "0">>, 2, 10)
        /\ ParsesAs(<<"5", "0", "-", "3", "P">>, -3, 50)

C8_Witness ==
    /\ peResult # Null
    /\ IsLinear(peSource)
    /\ peText = <<"2", ".", "5", " ", "-", " ", "P">>
    /\ peResult.slope = Num(-1)
    /\ peResult.intercept = Rat(5, 2)

\* text holds no digit and no price variable
NothingToTokenize(text) ==
    \A i \in 1..Len(text) : ~IsDigit(text[i]) /\ text[i] \notin {"p", "P"}

(* C9: a parse that reports an error returns slope 0 and intercept 0, and
   a text without any digit or price variable (such as abc) reports one. *)
C9_ErrorMeansZero ==
    peResult # Null =>
        /\ peResult.error # Null =>
              peResult.slope = Num(0) /\ peResult.intercept = Num(0)
        /\ NothingToTokenize(peText) => peResult.error # Null

(* C10: an equation with several price terms parses to the sum of their
   signed coefficients, each bare P counting 1 wherever it stands. *)
C10_PriceTermsSummed ==
    (peResult # Null /\ peSource # Null /\ PriceTermCount(peSource) >= 2) =>
        peResult.slope = MeantSlope(peSource)

\* the quantities of the equilibria the solver produced
SolvedQuantities ==
    (IF initialEquilibrium # Null THEN {OriginalQuantity} ELSE {})
    \cup (IF shiftedEquilibrium # Null THEN {ShiftedQuantity} ELSE {})

\* the quantities the rows of the table stand for, in the order of the rows
RowQuantities == QuantitiesOfLocals(SeriesLocals(seriesRun))

\* rows: the table rows; quantities: what they stand for
EquilibriumRowsIn(rows, quantities) ==
    /\ \A q \in SolvedQuantities :
          \E n \in 1..Len(rows) :
              quantities[n] = q /\ rows[n].quantity = toFixed(q, 2)
    /\ TableShown =>
          /\ \A n \in 1..Len(rows) :
                rowClassName(rows[n]) # "" <=> quantities[n] \in SolvedQuantities
          /\ \A m, n \in 1..Len(rows) :
                m # n => rows[m].quantity # rows[n].quantity

(* C11: once the inputs have been computed, every equilibrium quantity the
   solver produced (original, shifted) is the quantity of a table row, and
   in the rendered table the highlighted rows are exactly the rows of those
   quantities and no two rows show the same quantity. *)
C11_EquilibriumRows ==
    mounted => EquilibriumRowsIn(tableData, RowQuantities)

\* the quantity of the last sample: the upper end of the sampling range
Qmax == SampleQuantity(maxQuantityValue(SeriesLocals(seriesRun)), numPointsGraph)

\* the largest element of a set of numbers
Largest(xs) == CHOOSE x \in xs : \A y \in xs : ~RatLess(x, y)

(* C12 as claimed: Qmax is never below 20, and with an equilibrium present
   it is max(20, 1.5 x the larger equilibrium quantity). *)
C12_QmaxFromEquilibria ==
    mounted =>
        /\ ~RatLess(Qmax, Num(20))
        /\ SolvedQuantities # {} =>
              Qmax = Largest({Num(20)}
                       \cup {RatMul(Rat(3, 2), q) : q \in SolvedQuantities})

\* 1.1 x the quantity at price zero of each curve that has one above zero:
\* a demand of negative slope, a supply of positive slope, as entered and
\* as shifted
InterceptCandidates ==
    {RatMul(Rat(11, 10), b) :
        b \in {c \in {Parsed(demandEq).intercept,
                      RatAdd(Parsed(demandEq).intercept, UsedShift(demandShift))} :
                  RatLt0(Parsed(demandEq).slope) /\ RatGt0(c)}
             \cup
             {c \in {Parsed(supplyEq).intercept,
                      RatAdd(Parsed(supplyEq).intercept, UsedShift(supplyShift))} :
                  RatGt0(Parsed(supplyEq).slope) /\ RatGt0(c)}}

(* C12, amended: Qmax is never below 20 and is the largest of 20, 1.5 x
   each equilibrium quantity present and 1.1 x each positive quantity
   intercept, whether or not an equilibrium is present. *)
C12_QmaxLargestCandidate ==
    mounted =>
        /\ ~RatLess(Qmax, Num(20))
        /\ Qmax = Largest({Num(20)}
                     \cup {RatMul(Rat(3, 2), q) : q \in SolvedQuantities}
                     \cup InterceptCandidates)

\* demand 50 - 3P meets supply P + 4 at quantity 15.5, and the range ends
\* at 1.1 x 50
C12_Witness ==
    /\ mounted
    /\ demandEq = <<"5", "0", "-", "3", "P">>
    /\ supplyEq = DefaultSupplyEq
    /\ ~ShiftsActive
    /\ initialEquilibrium # Null
    /\ OriginalQuantity = Rat(31, 2)
    /\ Qmax = Num(55)

\* p is the price of the curve Q = a*P + b at quantity q, absent (Null)
\* where the curve has no price of at least zero there
PriceOnCurve(a, b, q, p) ==
    /\ p # Null => a # Num(0) /\ RatAdd(RatMul(a, p), b) = q /\ RatGeq0(p)
    /\ p = Null => a = Num(0) \/ RatLt0(RatDiv(RatSub(q, b), a))

\* text shows the price of the curve at q to two decimals, N/A where the
\* curve has no price of at least zero there
PriceTextOnCurve(a, b, q, text) ==
    IF text = NotAvailable
    THEN a = Num(0) \/ RatLt0(RatDiv(RatSub(q, b), a))
    ELSE /\ a # Num(0)
         /\ RatGeq0(RatDiv(RatSub(q, b), a))
         /\ ShowsRounded(text, RatDiv(RatSub(q, b), a))

\* the four prices of the sample or row pt at quantity q, each tested by
\* Right(slope, intercept, q, value)
FourCurves(Right(_, _, _, _), q, pt) ==
    /\ Right(Parsed(demandEq).slope, Parsed(demandEq).intercept, q,
             pt.price_demanda_original)
    /\ Right(Parsed(supplyEq).slope, Parsed(supplyEq).intercept, q,
             pt.price_oferta_original)
    /\ Right(Parsed(demandEq).slope,
             RatAdd(Parsed(demandEq).intercept, UsedShift(demandShift)), q,
             pt.price_demanda_shifted)
    /\ Right(Parsed(supplyEq).slope,
             RatAdd(Parsed(supplyEq).intercept, UsedShift(supplyShift)), q,
             pt.price_oferta_shifted)

PricesRightIn(samples, rows, quantities) ==
    /\ \A n \in 1..Len(samples) :
          FourCurves(PriceOnCurve, samples[n].quantity, samples[n])
    /\ \A n \in 1..Len(rows) :
          FourCurves(PriceTextOnCurve, quantities[n], rows[n])

(* C13: once the inputs have been computed, in every sample of the plot
   series and every table row each of the four prices is
   (quantity - intercept) / slope where the slope is not zero and that
   value is at least zero, and is absent otherwise (null in the series,
   N/A in the table); so no price shown is negative. *)
C13_PricesOnCurves ==
    mounted => PricesRightIn(graphData, tableData, RowQuantities)

\* the default inputs: at quantity 16 the demand price is 0 and stored as
\* 0, at quantity 0 the supply has no price and none is stored
C13_Witness ==
    /\ mounted
    /\ demandEq = DefaultDemandEq /\ supplyEq = DefaultSupplyEq
    /\ ~ShiftsActive
    /\ Len(graphData) = numPointsGraph + 1
    /\ graphData[41].quantity = Num(16)
    /\ graphData[41].price_demanda_original = Num(0)
    /\ graphData[1].price_oferta_original = Null
    /\ tableData[1].price_oferta_original = NotAvailable
    /\ tableData[1].price_demanda_original = <<"1", "6", ".", "0", "0">>

(* C14: a step that sends an explanation request, and a step in which a
   request settles (with a text, a malformed reply or a failure), changes
   nothing but the explanation and the loading flag: the four inputs, both
   equilibria, the error, the plot series and table rows, the table switch
   and the dots stay as they are, whatever input changes came between. *)
C14_ExplanationFrame ==
    [][pending' # pending =>
          UNCHANGED <<demandEq, supplyEq, demandShift, supplyShift,
                      initialEquilibrium, shiftedEquilibrium, error,
                      seriesRun, showTable, equilibriumDots>>]_vars

\* a request sent before an input change has failed after it, next to an
\* error message and the series of the current inputs
C14_Witness ==
    /\ explanation = FallbackFailure
    /\ ~loadingExplanation /\ pending = 0
    /\ ~promptCurrent
    /\ error # ""
    /\ seriesRun # Null /\ seriesRun.demandEq = demandEq
    /\ demandEq # DefaultDemandEq

\* the reply carries no candidate text, or there is no reply
SettlesInFailure(reply) == reply.kind \in {"untexted", "malformed", "throws"}

(* C15: a request that settles in failure (the call throws, or the reply
   has no candidate text) leaves the explanation at one of the two fixed
   fallback strings, and a request that settles in any way leaves the
   loading flag cleared. *)
C15_FailureFallback ==
    [][pending' < pending =>
          /\ ~loadingExplanation'
          /\ SettlesInFailure(response) =>
                explanation' \in {FallbackMalformed, FallbackFailure}]_vars

(* C16: the shifted result is shown apart (the after-shifts lines of the
   result block, the dashed curves, the E1 dot) only when the shifts the
   computation used are not both zero, and the three agree: with a shifted
   equilibrium stored, either all of them are shown or none. *)
C16_ShiftedShownOnlyWithShifts ==
    mounted =>
        /\ ShiftedBlockShown => ShiftsActive
        /\ ShiftedCurvesShown => ShiftsActive
        /\ E1DotShown => ShiftsActive
        /\ shiftedEquilibrium # Null =>
              /\ ShiftedBlockShown <=> E1DotShown
              /\ ShiftedCurvesShown <=> E1DotShown

(* C17: an explanation on display was generated from the current inputs:
   no input has changed since its prompt was built. *)
C17_ExplanationCurrent ==
    ExplanationShown => promptCurrent

(* C18: at most one explanation request is in flight: a request is sent
   only while none is in flight, the loading flag is down and there is an
   equilibrium or an error to explain; the loading flag is up exactly
   while a request is in flight. *)
C18_SingleRequest ==
    /\ [](pending <= 1 /\ (loadingExplanation <=> pending = 1))
    /\ [][pending' > pending =>
             /\ pending = 0
             /\ ~loadingExplanation
             /\ (initialEquilibrium # Null \/ shiftedEquilibrium # Null
                 \/ error # "")]_vars

\* a request is in flight next to an error message: a further click is
\* turned down
C18_Witness ==
    /\ pending = 1 /\ loadingExplanation
    /\ response # Null /\ response.kind = "text"
    /\ error # ""
    /\ ExplanationRefused

====
